---- MODULE Spec2Model ----
(***************************************************************************)
(* A model of pigsqueeze (src/pigsqueeze/pigsqueeze.py): the JPEG APPn     *)
(* segment codec and the PNG ancillary chunk codec.                        *)
(*                                                                         *)
(* Byte strings are sequences of integers 0..255, indexed from 0 through   *)
(* At and Slice, which follow Python's indexing and slicing.  A Python str *)
(* is a sequence of code points; Encode is its UTF-8 encoding.             *)
(***************************************************************************)
EXTENDS Integers, Sequences, FiniteSets, TLC

VARIABLES fmt, alive, image_bytes, segments, app_seg_start, app_seg_end,
          chunks, custom_chunks, saved, last, wr, trail, touched, nwrites, nreads, gen

vars == <<fmt, alive, image_bytes, segments, app_seg_start, app_seg_end,
          chunks, custom_chunks, saved, last, wr, trail, touched, nwrites, nreads, gen>>

(***************************************************************************)
(* Python values                                                           *)
(***************************************************************************)

\* None, and an int held where None may be held (a fragment's index tag).
None == <<>>
Some(i) == <<i>>

Min(a, b) == IF a <= b THEN a ELSE b

\* s[i] for 0 <= i < len(s)
At(s, i) == s[i + 1]

\* s[a:b] for 0 <= a, 0 <= b (Python clamps both to len(s))
Slice(s, a, b) == SubSeq(s, a + 1, Min(b, Len(s)))

\* s[a:]
From(s, a) == SubSeq(s, a + 1, Len(s))

\* s.startswith(p)
StartsWith(s, p) == Len(p) <= Len(s) /\ SubSeq(s, 1, Len(p)) = p

RECURSIVE Concat(_)
\* b"".join(ss)
Concat(ss) == IF ss = <<>> THEN <<>> ELSE Head(ss) \o Concat(Tail(ss))

\* The outcome of a call: a value, no value (None), or an exception.
Ok(v) == [kind |-> "bytes", err |-> "", val |-> v]
Done == [kind |-> "none", err |-> "", val |-> <<>>]
Raise(e) == [kind |-> "error", err |-> e, val |-> <<>>]

(***************************************************************************)
(* plum's fixed-width big-endian integers                                  *)
(***************************************************************************)

RECURSIVE BigEndian(_, _)
\* v as n bytes, most significant first (v < 256^n)
BigEndian(v, n) ==
  IF n = 0 THEN <<>> ELSE Append(BigEndian(v \div 256, n - 1), v % 256)

RECURSIVE FromBigEndian(_)
FromBigEndian(b) ==
  IF b = <<>> THEN 0
  ELSE 256 * FromBigEndian(SubSeq(b, 1, Len(b) - 1)) + b[Len(b)]

\* UIntN.pack(v) raises when v does not fit in N bytes
UInt8Fits(v) == v >= 0 /\ v < 256
UInt16Fits(v) == v >= 0 /\ v < 65536
UInt8Pack(v) == BigEndian(v, 1)
UInt16Pack(v) == BigEndian(v, 2)

\* A 32-bit unsigned integer, held as its two 16-bit halves (a CRC-32 does
\* not fit the checker's integers).
Word(n) == [hi |-> n \div 65536, lo |-> n % 65536]
ToInt(w) == w.hi * 65536 + w.lo
UInt32Pack(w) == BigEndian(w.hi, 2) \o BigEndian(w.lo, 2)

\* UIntN.unpack(b) raises unless b holds exactly N bytes
UInt16Ok(b) == Len(b) = 2
UInt32Ok(b) == Len(b) = 4
UInt16Unpack(b) == FromBigEndian(b)
UInt32Unpack(b) ==
  [hi |-> FromBigEndian(SubSeq(b, 1, 2)), lo |-> FromBigEndian(SubSeq(b, 3, 4))]

(***************************************************************************)
(* str.encode(): UTF-8 of the code points below 2048                       *)
(***************************************************************************)

Utf8(c) == IF c < 128 THEN <<c>> ELSE <<192 + (c \div 64), 128 + (c % 64)>>

RECURSIVE Encode(_)
Encode(str) == IF str = <<>> THEN <<>> ELSE Utf8(Head(str)) \o Encode(Tail(str))

\* f"{identifier}\x00".encode()
IdentifierBytes(identifier) == Encode(identifier \o <<0>>)

(***************************************************************************)
(* JPEGImage                                                               *)
(***************************************************************************)

JPEG_HEADER == <<255, 216>>
SEG_PREFIX == <<255>>
FREE_SEGMENTS == {4, 5, 6, 7, 8, 9, 10, 11, 15}

\* image_bytes[cursor : cursor + 2] in app_markers
IsAppMarker(bytes, cursor) ==
  /\ cursor + 1 < Len(bytes)
  /\ At(bytes, cursor) = 255
  /\ At(bytes, cursor + 1) >= 224
  /\ At(bytes, cursor + 1) <= 239

\* The offsets the scan visits, range(0, len, 2), that hold a marker.
MarkerOffsets(bytes) ==
  {c \in 0..(Len(bytes) - 1) : c % 2 = 0 /\ IsAppMarker(bytes, c)}

RECURSIVE Ascending(_)
\* The members of a set of integers, smallest first.
Ascending(S) ==
  IF S = {} THEN <<>>
  ELSE LET m == CHOOSE x \in S : \A y \in S : x <= y
       IN <<m>> \o Ascending(S \ {m})

\* app_segments[k]: the offsets of marker byte k, in scan order.
AppSegmentStarts(bytes, k) ==
  Ascending({c \in MarkerOffsets(bytes) : At(bytes, c + 1) = k})

\* The keys of app_segments in insertion order: by first occurrence.
AppSegmentKeys(bytes) ==
  LET keys == {At(bytes, c + 1) : c \in MarkerOffsets(bytes)}
      first(k) == AppSegmentStarts(bytes, k)[1]
      firsts == Ascending({first(k) : k \in keys})
  IN [i \in 1..Len(firsts) |-> At(bytes, firsts[i] + 1)]

\* Every (segment, start) the parse loop visits, in its order.
ParseOrder(bytes) ==
  LET keys == AppSegmentKeys(bytes)
  IN Concat([i \in 1..Len(keys) |->
               LET starts == AppSegmentStarts(bytes, keys[i])
               IN [j \in 1..Len(starts) |-> <<keys[i], starts[j]>>]])

RECURSIVE Resync(_, _)
\* while image_bytes[cursor:cursor+1] != SEG_PREFIX: cursor += 1; break past the end
Resync(bytes, cursor) ==
  IF Slice(bytes, cursor, cursor + 1) = SEG_PREFIX THEN cursor
  ELSE IF cursor + 1 > Len(bytes) THEN cursor + 1
  ELSE Resync(bytes, cursor + 1)

\* The cursor after the segment starting at start has been read.
SegmentEnd(bytes, start) ==
  LET seg_len == UInt16Unpack(Slice(bytes, start + 2, start + 4))
  IN Resync(bytes, start + seg_len + 1)

\* app_seg_start = min(app_segments[min(app_segments)])
AppSegStart(bytes) ==
  LET keys == {At(bytes, c + 1) : c \in MarkerOffsets(bytes)}
      least == CHOOSE k \in keys : \A k2 \in keys : k <= k2
  IN AppSegmentStarts(bytes, least)[1]

\* JPEGImage.parse: an exception, or the fields it sets.
JParse(bytes) ==
  LET order == ParseOrder(bytes)
  IN IF MarkerOffsets(bytes) = {}
     THEN [res |-> Raise("ValueError")]
     ELSE IF \E i \in 1..Len(order) :
               ~UInt16Ok(Slice(bytes, order[i][2] + 2, order[i][2] + 4))
     THEN [res |-> Raise("UnpackError")]
     ELSE [res |-> Done,
           segments |->
             [k \in {order[i][1] : i \in 1..Len(order)} |->
                LET starts == AppSegmentStarts(bytes, k)
                IN [j \in 1..Len(starts) |->
                      [tag |-> None,
                       raw |-> Slice(bytes, starts[j] + 2,
                                     SegmentEnd(bytes, starts[j]))]]],
           app_seg_start |-> AppSegStart(bytes),
           app_seg_end |-> SegmentEnd(bytes, order[Len(order)][2])]

\* chunk_size = (63535 - (len(identifier) + 2)) - 1, identifier being the
\* encoded identifier with its NUL
ChunkSize(identifier) == (63535 - (Len(identifier) + 2)) - 1

\* max_size = 256 * chunk_size
MaxSize(identifier) == 256 * ChunkSize(identifier)

\* total_chunks = math.ceil(n / chunk_size), for chunk_size > 0
TotalChunks(n, chunk_size) == (n + chunk_size - 1) \div chunk_size

\* The fragment write builds for slice number current_chunk.
SegmentData(identifier, data, multi_chunk, total_chunks, current_chunk) ==
  LET chunk_size == ChunkSize(identifier)
      chunk_data == Slice(data, current_chunk * chunk_size,
                          (current_chunk + 1) * chunk_size)
  IN UInt16Pack(Len(chunk_data) + Len(identifier) + 2
                + (IF multi_chunk THEN 2 ELSE 0))
     \o identifier
     \o (IF multi_chunk
         THEN UInt8Pack(total_chunks) \o UInt8Pack(current_chunk)
         ELSE <<>>)
     \o chunk_data

\* Whether building slice number current_chunk raises (a pack out of range).
SegmentDataRaises(identifier, data, multi_chunk, total_chunks, current_chunk) ==
  LET chunk_size == ChunkSize(identifier)
      chunk_data == Slice(data, current_chunk * chunk_size,
                          (current_chunk + 1) * chunk_size)
  IN \/ ~UInt16Fits(Len(chunk_data) + Len(identifier) + 2
                    + (IF multi_chunk THEN 2 ELSE 0))
     \/ multi_chunk /\ (~UInt8Fits(total_chunks) \/ ~UInt8Fits(current_chunk))

RECURSIVE BuildFragments(_, _, _, _, _)
\* The loop of write from slice number current_chunk on: the fragments
\* appended, and whether the loop ended in an exception.
BuildFragments(identifier, data, multi_chunk, total_chunks, current_chunk) ==
  IF current_chunk >= total_chunks THEN [frags |-> <<>>, raised |-> FALSE]
  ELSE IF SegmentDataRaises(identifier, data, multi_chunk, total_chunks,
                            current_chunk)
  THEN [frags |-> <<>>, raised |-> TRUE]
  ELSE LET rest == BuildFragments(identifier, data, multi_chunk,
                                  total_chunks, current_chunk + 1)
           frag == [tag |-> IF multi_chunk THEN Some(current_chunk) ELSE None,
                    raw |-> SegmentData(identifier, data, multi_chunk,
                                        total_chunks, current_chunk)]
       IN [frags |-> <<frag>> \o rest.frags, raised |-> rest.raised]

\* d with d[k] = v, k added when absent
DictSet(d, k, v) == [x \in DOMAIN d \cup {k} |-> IF x = k THEN v ELSE d[x]]

\* JPEGImage.write(segment, identifier, data, multi_chunk): the outcome of
\* the call and self.segments after it.
JWrite(segs, segment, identifier, data, multi_chunk) ==
  LET ident == IdentifierBytes(identifier)
      built == BuildFragments(ident, data, multi_chunk,
                              TotalChunks(Len(data), ChunkSize(ident)), 0)
  IN IF segment < 0 \/ segment > 15
     THEN [res |-> Raise("InvalidSegmentNumber"), segments |-> segs]
     ELSE IF segment \notin FREE_SEGMENTS
     THEN [res |-> Raise("ReservedSegment"), segments |-> segs]
     ELSE IF Len(data) > MaxSize(ident)
     THEN [res |-> Raise("PayloadTooLarge"), segments |-> segs]
     ELSE [res |-> IF built.raised THEN Raise("PackError") ELSE Done,
           segments |-> DictSet(segs, 224 + segment, built.frags)]

RECURSIVE InsertByTag(_, _)
\* frag put into the sorted list after every element whose key is <= its own
InsertByTag(sorted, frag) ==
  IF sorted = <<>> THEN <<frag>>
  ELSE IF Head(sorted).tag[1] <= frag.tag[1]
  THEN <<Head(sorted)>> \o InsertByTag(Tail(sorted), frag)
  ELSE <<frag>> \o sorted

RECURSIVE SortByTag(_)
\* sorted(frags, key=lambda x: x[0]) over int keys: stable
SortByTag(frags) ==
  IF frags = <<>> THEN <<>>
  ELSE InsertByTag(SortByTag(SubSeq(frags, 1, Len(frags) - 1)),
                   frags[Len(frags)])

\* sorted(frags, key=lambda x: x[0]) raises TypeError: two or more elements
\* are compared and one of the keys is None
SortRaises(frags) ==
  Len(frags) >= 2 /\ \E i \in 1..Len(frags) : frags[i].tag = None

\* new_segments sorted before it is stored
RetaggedSorted(frags, n) ==
  SortByTag([i \in 1..Len(frags) |->
               [tag |-> Some(At(frags[i].raw, 2 + n + 1)),
                raw |-> frags[i].raw]])

\* new_segments: every fragment, in list order, tagged with the index byte
\* it holds after an identifier of n bytes
Retagged(frags, n) ==
  [i \in 1..Len(frags) |->
     [tag |-> Some(At(frags[i].raw, 2 + n + 1)), raw |-> frags[i].raw]]

\* JPEGImage.read(segment, identifier, multi_chunk): the outcome of the call
\* and self.segments after it.
JRead(segs, segment, identifier, multi_chunk) ==
  LET seg == 224 + segment
      ident == IdentifierBytes(identifier)
      n == Len(ident)
      frags == segs[seg]
      \* the first fragment, in list order, at which the loop raises
      bad == {i \in 1..Len(frags) :
                \/ ~StartsWith(From(frags[i].raw, 2), ident)
                \/ Len(Slice(frags[i].raw, 2 + n, 2 + n + 2)) # 2}
      first == CHOOSE i \in bad : \A j \in bad : i <= j
      new_segments == Retagged(frags, n)
      ordered == SortByTag(new_segments)
  IN IF seg \notin DOMAIN segs
     THEN [res |-> Done, segments |-> segs]
     ELSE IF ~multi_chunk
     THEN IF frags = <<>>
          THEN [res |-> Raise("IndexError"), segments |-> segs]
          ELSE IF ~StartsWith(From(frags[1].raw, 2), ident)
          THEN [res |-> Raise("IdentifierMismatch"), segments |-> segs]
          ELSE [res |-> Ok(From(frags[1].raw, 2 + n)), segments |-> segs]
     ELSE IF bad # {}
     THEN [res |-> IF ~StartsWith(From(frags[first].raw, 2), ident)
                   THEN Raise("IdentifierMismatch")
                   ELSE Raise("ValueError"),
           segments |-> segs]
     ELSE [res |-> Ok(Concat([i \in 1..Len(ordered) |->
                                From(ordered[i].raw, 2 + n + 2)])),
           segments |-> DictSet(segs, seg, new_segments)]

\* The fragments of one segment as save emits them.
EmitSegment(seg, frags) ==
  LET ordered == IF Len(frags) >= 2 THEN SortByTag(frags) ELSE frags
  IN Concat([i \in 1..Len(ordered) |->
               SEG_PREFIX \o <<seg>> \o ordered[i].raw])

\* The splice with the tail taken one byte late
SpliceLate(bytes, assembled_segments, seg_start, seg_end) ==
  Slice(bytes, 0, seg_start) \o assembled_segments \o From(bytes, seg_end + 1)

\* new_bytes: the segments spliced into the source
Splice(bytes, assembled_segments, seg_start, seg_end) ==
  Slice(bytes, 0, seg_start) \o assembled_segments \o From(bytes, seg_end)

\* JPEGImage.save: an exception, or the bytes written to the file.
JSave(bytes, segs, seg_start, seg_end) ==
  LET keys == Ascending(DOMAIN segs)
      assembled_segments ==
        Concat([i \in 1..Len(keys) |-> EmitSegment(keys[i], segs[keys[i]])])
  IN IF \E k \in DOMAIN segs : SortRaises(segs[k])
     THEN Raise("TypeError")
     ELSE Ok(Splice(bytes, assembled_segments, seg_start, seg_end))

(***************************************************************************)
(* PNGImage                                                                *)
(***************************************************************************)

\* A str and a bytes object never compare equal in Python, whatever they
\* hold: values that meet in a comparison carry their type.
Str(s) == [type |-> "str", v |-> s]
Bytes(b) == [type |-> "bytes", v |-> b]

PNG_HEADER == <<137, 80, 78, 71, 13, 10, 26, 10>>

\* IHDR PLTE IDAT IEND tRNS cHRM gAMA iCCP sBIT sRGB iTXt tEXt zTXt bKGD hIST
\* pHYs sPLT tIME, as bytes
PNG_CHUNKS ==
  {Bytes(<<73, 72, 68, 82>>),
   Bytes(<<80, 76, 84, 69>>),
   Bytes(<<73, 68, 65, 84>>),
   Bytes(<<73, 69, 78, 68>>),
   Bytes(<<116, 82, 78, 83>>),
   Bytes(<<99, 72, 82, 77>>),
   Bytes(<<103, 65, 77, 65>>),
   Bytes(<<105, 67, 67, 80>>),
   Bytes(<<115, 66, 73, 84>>),
   Bytes(<<115, 82, 71, 66>>),
   Bytes(<<105, 84, 88, 116>>),
   Bytes(<<116, 69, 88, 116>>),
   Bytes(<<122, 84, 88, 116>>),
   Bytes(<<98, 75, 71, 68>>),
   Bytes(<<104, 73, 83, 84>>),
   Bytes(<<112, 72, 89, 115>>),
   Bytes(<<115, 80, 76, 84>>),
   Bytes(<<116, 73, 77, 69>>)}

RECURSIVE Xor(_, _)
\* a ^ b
Xor(a, b) ==
  IF a = 0 THEN b
  ELSE IF b = 0 THEN a
  ELSE ((a + b) % 2) + 2 * Xor(a \div 2, b \div 2)

\* a ^ b and a >> k (k <= 16) on 32-bit words
XorW(a, b) == [hi |-> Xor(a.hi, b.hi), lo |-> Xor(a.lo, b.lo)]
ShiftRightW(a, k) ==
  [hi |-> a.hi \div (2 ^ k),
   lo |-> (a.lo \div (2 ^ k)) + (a.hi % (2 ^ k)) * (2 ^ (16 - k))]

RECURSIVE CrcShift(_, _)
\* k rounds of the reflected CRC-32 division step (polynomial 0xEDB88320)
CrcShift(c, k) ==
  IF k = 0 THEN c
  ELSE CrcShift(IF c.lo % 2 = 1
                THEN XorW(ShiftRightW(c, 1), [hi |-> 60856, lo |-> 33568])
                ELSE ShiftRightW(c, 1),
                k - 1)

\* The CRC-32 table entry of byte value i.
CrcTable == [i \in 0..255 |-> CrcShift(Word(i), 8)]

RECURSIVE CrcUpdate(_, _)
CrcUpdate(c, bytes) ==
  IF bytes = <<>> THEN c
  ELSE CrcUpdate(XorW(CrcTable[Xor(c.lo % 256, Head(bytes))],
                      ShiftRightW(c, 8)),
                 Tail(bytes))

\* zlib.crc32(bytes)
Crc32(bytes) ==
  XorW(CrcUpdate([hi |-> 65535, lo |-> 65535], bytes),
       [hi |-> 65535, lo |-> 65535])

\* One chunk as parse and write hold it: (length, type, data, crc).
Chunk(length, type, data, crc) ==
  [length |-> length, type |-> type, data |-> data, crc |-> crc]

RECURSIVE ScanChunks(_, _)
\* The while loop of parse from cursor on: the chunks read, in file order,
\* and whether an unpack raised.
ScanChunks(bytes, cursor) ==
  IF cursor >= Len(bytes) THEN [list |-> <<>>, raised |-> FALSE]
  ELSE IF ~UInt32Ok(Slice(bytes, cursor, cursor + 4))
  THEN [list |-> <<>>, raised |-> TRUE]
  ELSE IF UInt32Unpack(Slice(bytes, cursor, cursor + 4)).hi >= 32768
  \* a length of 2^31 or more: the slice for the CRC is empty
  THEN [list |-> <<>>, raised |-> TRUE]
  ELSE LET chunk_length == ToInt(UInt32Unpack(Slice(bytes, cursor, cursor + 4)))
           chunk_type == Slice(bytes, cursor + 4, cursor + 8)
           chunk_data == Slice(bytes, cursor + 8, cursor + 8 + chunk_length)
           crc_bytes == Slice(bytes, cursor + 8 + chunk_length,
                              cursor + 12 + chunk_length)
           rest == ScanChunks(bytes, cursor + 12 + chunk_length)
       IN IF ~UInt32Ok(crc_bytes) THEN [list |-> <<>>, raised |-> TRUE]
          ELSE [list |-> <<Chunk(chunk_length, chunk_type, chunk_data,
                                 UInt32Unpack(crc_bytes))>> \o rest.list,
                raised |-> rest.raised]

\* PNGImage.parse: an exception, or the fields it sets.
PParse(bytes) ==
  LET scan == ScanChunks(bytes, Len(PNG_HEADER))
      all == scan.list
      IsStandard(c) == Bytes(c.type) \in PNG_CHUNKS
      custom == {i \in 1..Len(all) : ~IsStandard(all[i])}
      standard == Ascending({i \in 1..Len(all) : IsStandard(all[i])})
      \* a later chunk of a type replaces an earlier one
      latest(t) == CHOOSE i \in custom :
                     /\ all[i].type = t
                     /\ \A j \in custom : all[j].type = t => j <= i
  IN IF scan.raised THEN [res |-> Raise("UnpackError")]
     ELSE [res |-> Done,
           chunks |-> [j \in 1..Len(standard) |-> all[standard[j]]],
           custom_chunks |-> [t \in {all[i].type : i \in custom} |->
                                all[latest(t)]]]

\* str.isupper() of one character (code points below 256)
IsUpper(c) ==
  \/ c >= 65 /\ c <= 90
  \/ c >= 192 /\ c <= 222 /\ c # 215

\* The checks read and write open with: the exception raised, or "".
ChunkTypeError(chunk_type) ==
  IF Str(chunk_type) \in PNG_CHUNKS THEN "InvalidChunkType"
  ELSE IF Len(chunk_type) # 4 THEN "InvalidChunkType"
  ELSE IF IsUpper(chunk_type[1]) THEN "InvalidChunkType"
  ELSE ""

\* PNGImage.read(chunk_type, identifier): the outcome of the call.
PRead(custom, chunk_type, identifier) ==
  LET ident == IdentifierBytes(identifier)
      type == Encode(chunk_type)
  IN IF ChunkTypeError(chunk_type) # ""
     THEN Raise(ChunkTypeError(chunk_type))
     ELSE IF type \notin DOMAIN custom
     THEN Raise("ChunkOrSegmentNotFound")
     ELSE IF ident = <<0>> \/ ~StartsWith(custom[type].data, ident)
     THEN Raise("IdentifierMismatch")
     ELSE Ok(From(custom[type].data, Len(ident)))

\* The chunk with the NUL of the identifier left out of its length
NewChunkShort(type, chunk_data) ==
  Chunk(Len(chunk_data) - 1, type, chunk_data, Crc32(type \o chunk_data))

\* The chunk write stores: (len(chunk_data), chunk_type, chunk_data, crc)
NewChunk(type, chunk_data) ==
  Chunk(Len(chunk_data), type, chunk_data, Crc32(type \o chunk_data))

\* PNGImage.write(chunk_type, identifier, data): the outcome of the call and
\* self.custom_chunks after it.
PWrite(custom, chunk_type, identifier, data) ==
  LET type == Encode(chunk_type)
      chunk_data == IdentifierBytes(identifier) \o data
  IN IF ChunkTypeError(chunk_type) # ""
     THEN [res |-> Raise(ChunkTypeError(chunk_type)), custom_chunks |-> custom]
     ELSE [res |-> Done,
           custom_chunks |-> DictSet(custom, type, NewChunk(type, chunk_data))]

RECURSIVE LexLess(_, _)
\* a < b for bytes objects
LexLess(a, b) ==
  IF b = <<>> THEN FALSE
  ELSE IF a = <<>> THEN TRUE
  ELSE IF Head(a) # Head(b) THEN Head(a) < Head(b)
  ELSE LexLess(Tail(a), Tail(b))

RECURSIVE SortedKeys(_)
\* The keys of custom_chunks as sorted(custom_chunks.items()) visits them.
SortedKeys(S) ==
  IF S = {} THEN <<>>
  ELSE LET m == CHOOSE x \in S : \A y \in S \ {x} : LexLess(x, y)
       IN <<m>> \o SortedKeys(S \ {m})

\* One chunk as save writes it.
ChunkBytes(c) ==
  UInt32Pack(Word(c.length)) \o c.type \o c.data \o UInt32Pack(c.crc)

\* PNGImage.save: the bytes written to the file.
PSave(std, custom) ==
  LET keys == SortedKeys(DOMAIN custom)
  IN Ok(PNG_HEADER
        \o Concat([i \in 1..Min(1, Len(std)) |-> ChunkBytes(std[i])])
        \o Concat([i \in 1..Len(keys) |-> ChunkBytes(custom[keys[i]])])
        \o Concat([i \in 1..(Len(std) - Min(1, Len(std))) |->
                     ChunkBytes(std[i + 1])]))

(***************************************************************************)
(* The inputs                                                              *)
(***************************************************************************)

MaxPayloadLen == 1
MaxUnits == 2
MaxWrites == 1
MaxReads == 1
MaxLoads == 1

\* Every sequence over S of length at most n.
SeqsUpTo(S, n) == UNION {[1..k -> S] : k \in 0..n}

\* Payloads: bytes over 'a' and 0xFF.
Payloads == SeqsUpTo({97, 255}, MaxPayloadLen)

\* Identifiers: "", "t", "u".
Identifiers == {<<>>, <<116>>, <<117>>}

\* A fragment as an earlier write of this program left it in a file.
StoredFragment(segment, identifier, total_chunks, current_chunk, chunk_data) ==
  LET body == IdentifierBytes(identifier)
              \o <<total_chunks, current_chunk>> \o chunk_data
  IN SEG_PREFIX \o <<224 + segment>> \o UInt16Pack(Len(body) + 2) \o body

\* The APPn segments a JPEG source is made of: the two fragments of an APP4
\* payload "aabb" under identifier "t", the second one first; an APP5
\* segment of another program; a one-fragment APP5 payload of odd length.
JSourceUnits ==
  {StoredFragment(4, <<116>>, 2, 1, <<98, 98>>),
   StoredFragment(4, <<116>>, 2, 0, <<97, 97>>),
   <<255, 229, 0, 4, 97, 98>>,
   StoredFragment(5, <<116>>, 1, 0, <<97>>)}

\* JPEG sources: SOI, one to MaxUnits segments, EOI.
JSources ==
  {JPEG_HEADER \o Concat(us) \o <<255, 217>> :
     us \in SeqsUpTo(JSourceUnits, MaxUnits) \ {<<>>}}

\* The segment numbers write and read are called with.
JSegmentArgs == {-1, 0, 4, 5, 16}

\* A chunk of a PNG source, with its true CRC.
StoredChunk(type, data) ==
  ChunkBytes(Chunk(Len(data), type, data, Crc32(type \o data)))

\* The chunks a PNG source holds between IHDR and IEND: two "abcd" chunks
\* with different payloads under identifier "t", and a tEXt chunk.
PSourceUnits ==
  {StoredChunk(<<97, 98, 99, 100>>, <<116, 0, 97>>),
   StoredChunk(<<97, 98, 99, 100>>, <<116, 0, 98>>),
   StoredChunk(<<116, 69, 88, 116>>, <<107>>)}

\* PNG sources: the signature, IHDR, up to MaxUnits chunks, IEND.
PSources ==
  {PNG_HEADER \o StoredChunk(<<73, 72, 68, 82>>, <<1>>) \o Concat(us)
     \o StoredChunk(<<73, 69, 78, 68>>, <<>>) :
     us \in SeqsUpTo(PSourceUnits, MaxUnits)}

\* The chunk types write and read are called with: "abcd", "tEXt", "IHDR",
\* "abc", "Abcd", "1bcd", and "ébcd" (e acute, two bytes in UTF-8).
PChunkTypeArgs ==
  {<<97, 98, 99, 100>>, <<116, 69, 88, 116>>, <<73, 72, 68, 82>>,
   <<97, 98, 99>>, <<65, 98, 99, 100>>, <<49, 98, 99, 100>>,
   <<233, 98, 99, 100>>}

(***************************************************************************)
(* The codec over its life: constructed from a source, read and written,   *)
(* saved, and constructed again from the saved file.                       *)
(***************************************************************************)

\* A codec is constructed, read and written, and consumed by save: no call
\* follows a save that wrote the file.
Consumed == last.op = "save" /\ last.res.kind # "error"

NoCall == [op |-> "new", slot |-> <<>>, ident |-> <<>>, multi |-> TRUE,
           res |-> Done]
NoWrite == [slot |-> <<>>, ident |-> <<>>, data |-> <<>>, multi |-> TRUE]
Call(op, slot, ident, multi, res) ==
  [op |-> op, slot |-> slot, ident |-> ident, multi |-> multi, res |-> res]

Init ==
  /\ alive = TRUE
  /\ saved = Done
  /\ last = NoCall
  /\ wr = NoWrite
  /\ trail = ""
  /\ touched = {}
  /\ nwrites = 0
  /\ nreads = 0
  /\ gen = 0
  /\ \/ /\ fmt = "jpeg"
        /\ \E src \in JSources :
             /\ JParse(src).res.kind # "error"
             /\ image_bytes = src
             /\ segments = JParse(src).segments
             /\ app_seg_start = JParse(src).app_seg_start
             /\ app_seg_end = JParse(src).app_seg_end
        /\ chunks = <<>>
        /\ custom_chunks = <<>>
     \/ /\ fmt = "png"
        /\ \E src \in PSources :
             /\ PParse(src).res.kind # "error"
             /\ image_bytes = src
             /\ chunks = PParse(src).chunks
             /\ custom_chunks = PParse(src).custom_chunks
        /\ segments = <<>>
        /\ app_seg_start = 0
        /\ app_seg_end = 0

\* image.write(segment, identifier, data, multi_chunk) on a JPEGImage
JpegWrite ==
  /\ alive /\ fmt = "jpeg" /\ ~Consumed /\ nwrites < MaxWrites
  /\ \E segment \in JSegmentArgs, identifier \in Identifiers,
        data \in Payloads, multi_chunk \in BOOLEAN :
       LET w == JWrite(segments, segment, identifier, data, multi_chunk)
       IN /\ segments' = w.segments
          /\ last' = Call("write", segment, <<>>, TRUE, w.res)
          /\ IF w.res.kind = "error"
             THEN wr' = NoWrite /\ trail' = ""
             ELSE /\ wr' = [slot |-> segment, ident |-> identifier,
                            data |-> data, multi |-> multi_chunk]
                  /\ trail' = "w"
  /\ nwrites' = nwrites + 1
  /\ UNCHANGED <<fmt, alive, image_bytes, app_seg_start, app_seg_end, chunks,
                 custom_chunks, saved, touched, gen, nreads>>

\* image.read(segment, identifier, multi_chunk) on a JPEGImage
JpegRead ==
  /\ alive /\ fmt = "jpeg" /\ ~Consumed /\ nreads < MaxReads
  /\ \E segment \in FREE_SEGMENTS \cap JSegmentArgs,
        identifier \in Identifiers, multi_chunk \in BOOLEAN :
       LET r == JRead(segments, segment, identifier, multi_chunk)
       IN /\ segments' = r.segments
          /\ last' = Call("read", segment, identifier, multi_chunk, r.res)
  /\ trail' = IF trail \in {"w", "wsl"} THEN trail \o "r" ELSE ""
  /\ nreads' = nreads + 1
  /\ UNCHANGED <<fmt, alive, image_bytes, app_seg_start, app_seg_end, chunks,
                 custom_chunks, saved, wr, touched, gen, nwrites>>

\* image.save(file) on a JPEGImage
JpegSave ==
  /\ alive /\ fmt = "jpeg" /\ last.op # "save"
  /\ LET out == JSave(image_bytes, segments, app_seg_start, app_seg_end)
     IN /\ last' = Call("save", <<>>, <<>>, TRUE, out)
        /\ saved' = IF out.kind = "error" THEN saved ELSE out
        /\ trail' = IF trail = "w" /\ out.kind # "error" THEN "ws" ELSE ""
  /\ UNCHANGED <<fmt, alive, image_bytes, segments, app_seg_start,
                 app_seg_end, chunks, custom_chunks, wr, touched, nwrites, nreads, gen>>

\* JPEGImage(file) on the saved file
JpegLoad ==
  /\ alive /\ fmt = "jpeg" /\ Consumed /\ gen < MaxLoads
  /\ LET p == JParse(saved.val)
     IN /\ last' = Call("load", <<>>, <<>>, TRUE, p.res)
        /\ image_bytes' = saved.val
        /\ IF p.res.kind = "error"
           THEN /\ alive' = FALSE
                /\ segments' = <<>>
                /\ app_seg_start' = 0
                /\ app_seg_end' = 0
           ELSE /\ alive' = TRUE
                /\ segments' = p.segments
                /\ app_seg_start' = p.app_seg_start
                /\ app_seg_end' = p.app_seg_end
  /\ trail' = IF trail = "ws" THEN "wsl" ELSE ""
  /\ gen' = gen + 1
  /\ touched' = {}
  /\ UNCHANGED <<fmt, chunks, custom_chunks, saved, wr, nwrites, nreads>>

\* image.write(chunk_type, identifier, data) on a PNGImage
PngWrite ==
  /\ alive /\ fmt = "png" /\ ~Consumed /\ nwrites < MaxWrites
  /\ \E chunk_type \in PChunkTypeArgs, identifier \in Identifiers,
        data \in Payloads :
       LET w == PWrite(custom_chunks, chunk_type, identifier, data)
       IN /\ custom_chunks' = w.custom_chunks
          /\ last' = Call("write", chunk_type, <<>>, TRUE, w.res)
          /\ IF w.res.kind = "error"
             THEN wr' = NoWrite /\ trail' = "" /\ touched' = touched
             ELSE /\ wr' = [slot |-> chunk_type, ident |-> identifier,
                            data |-> data, multi |-> TRUE]
                  /\ trail' = "w"
                  /\ touched' = touched \cup {Encode(chunk_type)}
  /\ nwrites' = nwrites + 1
  /\ UNCHANGED <<fmt, alive, image_bytes, segments, app_seg_start,
                 app_seg_end, chunks, saved, gen, nreads>>

\* image.read(chunk_type, identifier) on a PNGImage
PngRead ==
  /\ alive /\ fmt = "png" /\ ~Consumed /\ nreads < MaxReads
  /\ \E chunk_type \in PChunkTypeArgs, identifier \in Identifiers :
       last' = Call("read", chunk_type, identifier, TRUE,
                    PRead(custom_chunks, chunk_type, identifier))
  /\ trail' = IF trail \in {"w", "wsl"} THEN trail \o "r" ELSE ""
  /\ nreads' = nreads + 1
  /\ UNCHANGED <<fmt, alive, image_bytes, segments, app_seg_start,
                 app_seg_end, chunks, custom_chunks, saved, wr, touched, gen, nwrites>>

\* image.save(file) on a PNGImage
PngSave ==
  /\ alive /\ fmt = "png" /\ last.op # "save"
  /\ LET out == PSave(chunks, custom_chunks)
     IN /\ last' = Call("save", <<>>, <<>>, TRUE, out)
        /\ saved' = out
        /\ trail' = IF trail = "w" THEN "ws" ELSE ""
  /\ UNCHANGED <<fmt, alive, image_bytes, segments, app_seg_start,
                 app_seg_end, chunks, custom_chunks, wr, touched, nwrites, nreads, gen>>

\* PNGImage(file) on the saved file
PngLoad ==
  /\ alive /\ fmt = "png" /\ Consumed /\ gen < MaxLoads
  /\ LET p == PParse(saved.val)
     IN /\ last' = Call("load", <<>>, <<>>, TRUE, p.res)
        /\ image_bytes' = saved.val
        /\ IF p.res.kind = "error"
           THEN /\ alive' = FALSE
                /\ chunks' = <<>>
                /\ custom_chunks' = <<>>
           ELSE /\ alive' = TRUE
                /\ chunks' = p.chunks
                /\ custom_chunks' = p.custom_chunks
  /\ trail' = IF trail = "ws" THEN "wsl" ELSE ""
  /\ gen' = gen + 1
  /\ touched' = {}
  /\ UNCHANGED <<fmt, segments, app_seg_start, app_seg_end, saved, wr, nwrites, nreads>>

Next ==
  \/ JpegWrite
  \/ JpegRead
  \/ JpegSave
  \/ JpegLoad
  \/ PngWrite
  \/ PngRead
  \/ PngSave
  \/ PngLoad

Spec == Init /\ [][Next]_vars

(***************************************************************************)
(* Properties of the codecs                                                *)
(***************************************************************************)

\* str.islower() of one character (code points below 256)
IsLower(c) ==
  \/ c >= 97 /\ c <= 122
  \/ c >= 223 /\ c <= 255 /\ c # 247

\* sub occurs in s as a run of consecutive bytes
Occurs(sub, s) ==
  \E i \in 0..(Len(s) - Len(sub)) : Slice(s, i, i + Len(sub)) = sub

\* The last call was a read of the slot and identifier of the write that
\* came right before it (trail "wr"), or right before the save and the
\* construction from the saved file that came before it (trail "wslr").
ReadBack(t) ==
  /\ trail = t
  /\ last.op = "read"
  /\ last.slot = wr.slot

\* C1: JPEG round trip.  A write with a free segment number, an identifier
\* and a payload, then save, then a codec built from the saved bytes, then a
\* read of the same segment with the same identifier (multi_fragment left at
\* its default in both), returns exactly the payload written.
C1_JpegRoundTrip ==
  (fmt = "jpeg" /\ ReadBack("wslr") /\ last.ident = wr.ident
     /\ wr.multi /\ last.multi)
    => last.res = Ok(wr.data)

\* The chunk types claim C2 is about: 4 characters, a lowercase first
\* letter, not the name of a standard chunk.
CustomType(t) ==
  Len(t) = 4 /\ IsLower(t[1]) /\ Bytes(Encode(t)) \notin PNG_CHUNKS

Ascii(t) == \A i \in 1..Len(t) : t[i] < 128

C3_IdentifierMismatch ==
  ((ReadBack("wr") \/ ReadBack("wslr")) /\ last.ident # wr.ident)
    => last.res = Raise("IdentifierMismatch")

\* The chunk types claim C5 wants rejected: a standard chunk name, a length
\* other than 4, a first character that is not a lowercase letter.
InvalidType(t) ==
  \/ Bytes(Encode(t)) \in PNG_CHUNKS
  \/ Len(t) # 4
  \/ ~IsLower(t[1])

\* C5: PNG chunk-type validation.  write and read raise InvalidChunkType for
\* every such chunk type, and no such type is a key a write has stored.
C5_ChunkTypeValidation ==
  /\ (fmt = "png" /\ last.op \in {"read", "write"} /\ InvalidType(last.slot))
       => last.res = Raise("InvalidChunkType")
  /\ fmt = "png" =>
       \A t \in PChunkTypeArgs : InvalidType(t) => Encode(t) \notin touched

\* The JPEG half of C6: the bytes of the output before app_seg_start and
\* after app_seg_end are those of the source.
JpegSplicePreserves ==
  /\ Slice(saved.val, 0, app_seg_start) = Slice(image_bytes, 0, app_seg_start)
  /\ Len(saved.val) >= Len(From(image_bytes, app_seg_end))
  /\ From(saved.val, Len(saved.val) - Len(From(image_bytes, app_seg_end)))
       = From(image_bytes, app_seg_end)

\* The chunks of the source, in file order.
SourceChunks == ScanChunks(image_bytes, Len(PNG_HEADER)).list

\* C6 as stated: non-destructive splice.  After a save, (JPEG) the bytes
\* before app_seg_start and after app_seg_end are the source's, and (PNG)
\* every standard chunk of the source and every custom chunk of the source
\* whose type no write touched is in the output, byte for byte.
C6_SpliceKeepsEveryChunk ==
  (last.op = "save" /\ last.res.kind # "error") =>
    IF fmt = "jpeg" THEN JpegSplicePreserves
    ELSE \A i \in 1..Len(SourceChunks) :
           (Bytes(SourceChunks[i].type) \in PNG_CHUNKS
              \/ SourceChunks[i].type \notin touched)
             => Occurs(ChunkBytes(SourceChunks[i]), saved.val)

\* C6 (amended): after a save, (JPEG) the bytes before app_seg_start and
\* after app_seg_end are the source's, and (PNG) every standard chunk of the
\* source, and every custom chunk of the source that is the last of its
\* type there and whose type no write touched, is in the output, byte for
\* byte.
C6_SpliceKeepsScannedChunks ==
  (last.op = "save" /\ last.res.kind # "error") =>
    IF fmt = "jpeg" THEN JpegSplicePreserves
    ELSE \A i \in 1..Len(SourceChunks) :
           (\/ Bytes(SourceChunks[i].type) \in PNG_CHUNKS
            \/ /\ SourceChunks[i].type \notin touched
               /\ \A j \in 1..Len(SourceChunks) :
                    SourceChunks[j].type = SourceChunks[i].type => j <= i)
             => Occurs(ChunkBytes(SourceChunks[i]), saved.val)

\* A JPEG with bytes after app_seg_end has been written to and saved.
C6_Witness ==
  /\ fmt = "jpeg"
  /\ last.op = "save" /\ last.res.kind # "error"
  /\ trail = "ws"
  /\ app_seg_start > 0
  /\ app_seg_end < Len(image_bytes)
  /\ saved.val # image_bytes

\* The raw bytes of every fragment, segment by segment, in list order.
RawBytes(segs) ==
  [k \in DOMAIN segs |-> [i \in 1..Len(segs[k]) |-> segs[k][i].raw]]

RECURSIVE InsertNoneFirst(_, _)
InsertNoneFirst(sorted, frag) ==
  IF sorted = <<>> THEN <<frag>>
  ELSE IF \/ Head(sorted).tag = None
          \/ frag.tag # None /\ Head(sorted).tag[1] <= frag.tag[1]
  THEN <<Head(sorted)>> \o InsertNoneFirst(Tail(sorted), frag)
  ELSE <<frag>> \o sorted

RECURSIVE NoneFirst(_)
\* The order claim C9 gives the fragments of a segment: those with no index
\* first, then by ascending index, equal keys in list order.
NoneFirst(frags) ==
  IF frags = <<>> THEN <<>>
  ELSE InsertNoneFirst(NoneFirst(SubSeq(frags, 1, Len(frags) - 1)),
                       frags[Len(frags)])

\* The segments as claim C9 has save emit them.
EmitNoneFirst(segs) ==
  LET keys == Ascending(DOMAIN segs)
  IN Concat([i \in 1..Len(keys) |->
               Concat([j \in 1..Len(segs[keys[i]]) |->
                         SEG_PREFIX \o <<keys[i]>>
                           \o NoneFirst(segs[keys[i]])[j].raw])])

\* C9: JPEG save ordering over every reachable table.  save completes
\* without error and emits the segments in ascending segment number and,
\* within each, the fragments with no index first and then in ascending
\* fragment_index, each after 0xFF and 0xE0 + segment_number.
C9_SaveOrdersEveryTable ==
  (fmt = "jpeg" /\ last.op = "save") =>
    /\ last.res.kind # "error"
    /\ last.res.val = Splice(image_bytes, EmitNoneFirst(segments),
                             app_seg_start, app_seg_end)

\* C10: the container region covers every scanned segment.  After a scan,
\* app_seg_start is at or before the marker of every scanned segment and
\* app_seg_end at or after the end cursor of every scanned segment.
C10_RegionCoversSegments ==
  (fmt = "jpeg" /\ alive /\ last.op \in {"new", "load"}) =>
    \A c \in MarkerOffsets(image_bytes) :
      /\ app_seg_start <= c
      /\ SegmentEnd(image_bytes, c) <= app_seg_end


(***************************************************************************)
(* JPEGImage.write and save at full capacity.  A payload of max_size bytes *)
(* cannot be held byte by byte: here a byte string is held as its length,  *)
(* and a fragment as its tag, the two header bytes write packs into it and *)
(* the length of its bytes.  write and save read nothing else of them.     *)
(***************************************************************************)

\* len(s[a:b]) for a string of n bytes
SliceLen(n, a, b) == IF Min(b, n) > Min(a, n) THEN Min(b, n) - Min(a, n) ELSE 0

\* An identifier of n characters (ASCII), and a payload of n bytes.
Blank(n) == [k \in 1..n |-> 32]

\* BuildFragments over lengths: identifier and data are lengths.  The loop
\* appends the fragments before the first slice whose packing raises.
BuildSizes(identifier, data, multi_chunk, total_chunks) ==
  LET chunk_size == ChunkSize(Blank(identifier))
      chunk_data(i) == SliceLen(data, i * chunk_size, (i + 1) * chunk_size)
      length(i) == chunk_data(i) + identifier + 2
                   + (IF multi_chunk THEN 2 ELSE 0)
      raising == {i \in 0..(total_chunks - 1) :
                    \/ ~UInt16Fits(length(i))
                    \/ multi_chunk /\ ~UInt8Fits(total_chunks)
                    \/ multi_chunk /\ ~UInt8Fits(i)}
      built == IF raising = {} THEN total_chunks
               ELSE CHOOSE i \in raising : \A j \in raising : i <= j
  IN [frags |-> [k \in 1..built |->
                   [tag |-> IF multi_chunk THEN Some(k - 1) ELSE None,
                    header |-> IF multi_chunk THEN <<total_chunks, k - 1>>
                               ELSE <<>>,
                    size |-> length(k - 1)]],
      raised |-> raising # {}]

\* JWrite over lengths: identifier is the length of the encoded identifier
\* with its NUL, data the length of the payload.
JWriteSizes(segs, segment, identifier, data, multi_chunk) ==
  LET chunk_size == ChunkSize(Blank(identifier))
      built == BuildSizes(identifier, data, multi_chunk,
                          TotalChunks(data, chunk_size))
  IN IF segment < 0 \/ segment > 15
     THEN [res |-> Raise("InvalidSegmentNumber"), segments |-> segs]
     ELSE IF segment \notin FREE_SEGMENTS
     THEN [res |-> Raise("ReservedSegment"), segments |-> segs]
     ELSE IF data > MaxSize(Blank(identifier))
     THEN [res |-> Raise("PayloadTooLarge"), segments |-> segs]
     ELSE [res |-> IF built.raised THEN Raise("PackError") ELSE Done,
           segments |-> DictSet(segs, 224 + segment, built.frags)]

\* JSave over lengths: an exception, or the file written.
JSaveSizes(segs) ==
  IF \E k \in DOMAIN segs : SortRaises(segs[k]) THEN Raise("TypeError")
  ELSE Done

MaxIdLen == 1

\* The payload lengths at the edges of the fragment count, for an encoded
\* identifier of n bytes.
EdgeLengths(n) ==
  LET chunk_size == ChunkSize(Blank(n))
  IN {0, 1, chunk_size, chunk_size + 1, 2 * chunk_size,
      255 * chunk_size, 255 * chunk_size + 1, 256 * chunk_size - 1,
      256 * chunk_size, 256 * chunk_size + 1}

InitSizes ==
  /\ fmt = "jpeg"
  /\ alive = TRUE
  /\ image_bytes = <<>>
  /\ \E held \in {4, 5} :
       segments = (224 + held) :> <<[tag |-> None, header |-> <<>>, size |-> 6]>>
  /\ app_seg_start = 2
  /\ app_seg_end = 10
  /\ chunks = <<>>
  /\ custom_chunks = <<>>
  /\ saved = Done
  /\ last = NoCall
  /\ wr = NoWrite
  /\ trail = ""
  /\ touched = {}
  /\ nwrites = 0
  /\ nreads = 0
  /\ gen = 0

\* image.write(segment, identifier, data, multi_chunk), by lengths
WriteSizes ==
  /\ nwrites < MaxWrites /\ ~Consumed
  /\ \E segment \in JSegmentArgs, n \in 1..(MaxIdLen + 1),
        multi_chunk \in BOOLEAN :
       \E data \in EdgeLengths(n) :
         LET w == JWriteSizes(segments, segment, n, data, multi_chunk)
         IN /\ segments' = w.segments
            /\ last' = Call("write", segment, <<>>, TRUE, w.res)
            /\ wr' = [slot |-> segment, ident |-> n, data |-> data,
                      multi |-> multi_chunk]
  /\ nwrites' = nwrites + 1
  /\ UNCHANGED <<fmt, alive, image_bytes, app_seg_start, app_seg_end, chunks,
                 custom_chunks, saved, trail, touched, nreads, gen>>

\* image.save(file), by lengths
SaveSizes ==
  /\ last.op # "save"
  /\ last' = Call("save", <<>>, <<>>, TRUE, JSaveSizes(segments))
  /\ UNCHANGED <<fmt, alive, image_bytes, segments, app_seg_start,
                 app_seg_end, chunks, custom_chunks, saved, wr, trail,
                 touched, nwrites, nreads, gen>>

NextSizes ==
  \/ WriteSizes
  \/ SaveSizes

SpecSizes == InitSizes /\ [][NextSizes]_vars

\* C4: capacity boundary of JPEG write.  With multi_fragment, a write of a
\* payload of exactly max_size bytes succeeds and stores fragments whose
\* total_fragments and fragment_index fit one byte each, and a write of
\* max_size + 1 bytes raises PayloadTooLarge.
C4_CapacityBoundary ==
  (last.op = "write" /\ wr.slot \in FREE_SEGMENTS /\ wr.multi) =>
    /\ wr.data = MaxSize(Blank(wr.ident)) =>
         /\ last.res.kind # "error"
         /\ Len(segments[224 + wr.slot]) = 256
         /\ \A i \in 1..Len(segments[224 + wr.slot]) :
              /\ UInt8Fits(segments[224 + wr.slot][i].header[1])
              /\ UInt8Fits(segments[224 + wr.slot][i].header[2])
    /\ wr.data = MaxSize(Blank(wr.ident)) + 1 =>
         last.res = Raise("PayloadTooLarge")

\* C7: a write that fails leaves the table intact.  Every write that ends
\* in an error leaves the unit table as it was before the call.
C7_FailedWriteKeepsTable ==
  [][(last'.op = "write" /\ last'.res.kind = "error") =>
       /\ segments' = segments
       /\ custom_chunks' = custom_chunks
       /\ chunks' = chunks]_vars

====
